---- MODULE Spec2Model ----
(***************************************************************************)
(* A state-machine model of the FraudGuard single-page client:             *)
(*   - AppContent (prediction exchange, stats fetch)     ResultCard.tsx    *)
(*   - ResultCard (tier selection)                       ResultCard.tsx    *)
(*   - PredictionForm (draft, completion percentage)     PredictionForm.tsx*)
(*   - TransactionHistory (poll, filter, pagination)     TransactionHistory*)
(* Numbers that are floats in the program are modelled exactly: a          *)
(* confidence is an integer number of thousandths, a percentage is a       *)
(* rational <<numerator, denominator>>.                                    *)
(***************************************************************************)
EXTENDS Integers, Sequences, FiniteSets, TLC

VARIABLES
    \* ---- AppContent (ResultCard.tsx 327-417)
    appMounted,      \* the mount effect of AppContent has run
    appTornDown,     \* AppContent has been unmounted
    prediction,      \* useState<any>(null)
    isLoading,       \* useState(false)
    stats,           \* useState({totalPredictions: 0, ...})
    predictReqs,     \* POST /predict exchanges in flight (one record each)
    statsAwaitFetch, \* GET /stats exchanges suspended at `await fetch(...)`
    statsAwaitJson,  \* GET /stats exchanges suspended at `await response.json()`
    toastSuccess,    \* number of toast.success calls so far
    toastError,      \* number of toast.error calls so far
    \* ---- PredictionForm (PredictionForm.tsx 34-92)
    formData,        \* useState(defaultValues)
    fillProgress,    \* useState(0), an exact rational <<num, den>>
    edits,           \* number of handleChange calls so far (bounded)
    \* ---- TransactionHistory (TransactionHistory.tsx 47-98)
    histPhase,       \* "init", "mounted" or "unmounted"
    timerActive,     \* the setInterval timer exists and has not been cleared
    transactions,    \* useState<Transaction[]>([])
    loading,         \* useState(true)
    filter,          \* useState('all')
    searchQuery,     \* useState(''), a sequence of characters
    currentPage,     \* useState(1)
    histAwaitFetch,  \* GET /recent exchanges suspended at `await fetch(...)`
    histAwaitJson,   \* GET /recent exchanges suspended at `await response.json()`
    \* ---- ResultCard (ResultCard.tsx 27-48)
    cardPrediction,  \* the prediction prop of the rendered result view
    cardColor,       \* the gradient classes the confidence score is drawn with
    cardHeadline,    \* the headline of the result view
    cardBarWidth,    \* the width of the confidence bar, a percentage <<num, den>>
    cardIdText,      \* the transaction id as displayed (Absent when the row is not drawn)
    copied,          \* useState(false)
    clipboard,       \* the system clipboard (Absent until something is written)
    copyTimers,      \* pending setTimeout(() => setCopied(false), 2000) callbacks
    \* ---- observation of the run (no program state)
    submitted,       \* number of submissions handed to handlePrediction/handleQuickTest
    posts,           \* number of POST /predict requests issued
    statsStarted,    \* number of GET /stats requests issued
    histStarted,     \* number of GET /recent requests issued
    lastEvent        \* what the last step did

appVars  == <<appMounted, appTornDown, prediction, isLoading, stats, predictReqs,
              statsAwaitFetch, statsAwaitJson, toastSuccess, toastError>>
formVars == <<formData, fillProgress, edits>>
histVars == <<histPhase, timerActive, transactions, loading, filter, searchQuery,
              currentPage, histAwaitFetch, histAwaitJson, histStarted>>
cardVars == <<cardPrediction, cardColor, cardHeadline, cardBarWidth, cardIdText,
              copied, clipboard, copyTimers>>
appObs   == <<submitted, posts, statsStarted>>
vars     == <<appVars, formVars, histVars, cardVars, appObs, lastEvent>>

(***************************************************************************)
(* Bounds of the model.                                                    *)
(***************************************************************************)
MaxSubmits == 3     \* submissions (form submit or quick test) per run
MaxEdits   == 2     \* handleChange calls per run
MaxSubmitEdits == 1 \* handleChange calls per run where the draft is also submitted

(***************************************************************************)
(* JSON values.  A JSON field is <<>> when absent and <<v>> when present.  *)
(***************************************************************************)
Absent    == <<>>
Present(v) == <<v>>
JsonNull  == [tag |-> "null"]

\* `x || 0` on a field of a parsed JSON object: absent (undefined) and 0 are falsy
OrZero(field) == IF field = Absent \/ field[1] = 0 THEN 0 ELSE field[1]

\* response.ok: the status is in the range 200-299
ResponseOk(status) == status >= 200 /\ status <= 299

\* the statuses the stub backend answers with
HttpStatuses == {200, 404, 500}

(***************************************************************************)
(* PredictionForm                                                          *)
(***************************************************************************)
VFields == {"v1", "v2", "v3", "v4", "v5", "v6", "v7", "v8", "v9", "v10",
            "v11", "v12", "v13", "v14", "v15", "v16", "v17", "v18", "v19",
            "v20", "v21", "v22", "v23", "v24", "v25", "v26", "v27", "v28"}
FieldNames == {"time"} \cup VFields \cup {"amount"}

defaultValues == [f \in FieldNames |-> IF f = "amount" THEN 100 ELSE 0]

\* an exact rational
Rat(n, d) == <<n, d>>
RatEq(a, b) == a[1] * b[2] = b[1] * a[2]
RatLe(a, b) == a[1] * b[2] <= b[1] * a[2]

\* Object.values(draft).filter(v => v !== 0).length
CountNonZero(draft) == Cardinality({f \in DOMAIN draft : draft[f] # 0})

\* what the user can type into a number input
InputTexts == {"", "0", "7", "-2"}

\* parseFloat(text): NaN is [nan |-> TRUE]
ParseFloat(text) ==
    CASE text = "0"  -> [nan |-> FALSE, v |-> 0]
      [] text = "7"  -> [nan |-> FALSE, v |-> 7]
      [] text = "-2" -> [nan |-> FALSE, v |-> 0 - 2]
      [] OTHER       -> [nan |-> TRUE, v |-> 0]

\* parseFloat(e.target.value) || 0 : NaN and 0 are falsy
OnChangeValue(text) ==
    LET p == ParseFloat(text) IN IF p.nan \/ p.v = 0 THEN 0 ELSE p.v

\* the percentage handleChange stores: (filled / 30) * 100
ProgressOf(draft) == Rat(CountNonZero(draft) * 100, 30)

\* handleChange computing the percentage from the draft as it was before the edit
handleChangeStale(field, value) ==
    /\ edits < MaxEdits
    /\ formData' = [formData EXCEPT ![field] = value]
    /\ fillProgress' = ProgressOf(formData)
    /\ edits' = edits + 1
    /\ lastEvent' = [op |-> "handleChange"]
    /\ UNCHANGED <<appVars, appObs, histVars, cardVars>>

\* handleChange writing the edited field into a fresh default draft
handleChangeFromDefaults(field, value) ==
    /\ edits < MaxEdits
    /\ formData' = [defaultValues EXCEPT ![field] = value]
    /\ fillProgress' = ProgressOf([defaultValues EXCEPT ![field] = value])
    /\ edits' = edits + 1
    /\ lastEvent' = [op |-> "handleChange"]
    /\ UNCHANGED <<appVars, appObs, histVars, cardVars>>

handleChange(field, value) ==
    /\ edits < MaxEdits
    /\ formData' = [formData EXCEPT ![field] = value]
    /\ fillProgress' = ProgressOf([formData EXCEPT ![field] = value])
    /\ edits' = edits + 1
    /\ lastEvent' = [op |-> "handleChange"]
    /\ UNCHANGED <<appVars, appObs, histVars, cardVars>>

HandleChange ==
    \E field \in FieldNames, text \in InputTexts :
        handleChange(field, OnChangeValue(text))

handleReset ==
    /\ formData' = defaultValues
    /\ fillProgress' = Rat(0, 1)
    /\ lastEvent' = [op |-> "handleReset"]
    /\ UNCHANGED <<appVars, appObs, histVars, cardVars, edits>>

\* Math.random() is in [0, 1): time = r * 172792 and amount = r * 1000 are 0
\* when r = 0, and v = (r - 0.5) * 4 is 0 when r = 0.5.  Three draws.
RandomDrafts ==
    { [f \in FieldNames |-> IF f = "time" THEN 5 ELSE IF f = "amount" THEN 9 ELSE 1],
      [f \in FieldNames |-> IF f = "time" THEN 0 ELSE IF f = "amount" THEN 9 ELSE 0 - 1],
      [f \in FieldNames |-> IF f = "v3" THEN 0 ELSE 2] }

fillRandomData ==
    /\ \E randomData \in RandomDrafts : formData' = randomData
    /\ fillProgress' = Rat(100, 1)
    /\ lastEvent' = [op |-> "fillRandomData"]
    /\ UNCHANGED <<appVars, appObs, histVars, cardVars, edits>>

(***************************************************************************)
(* AppContent: stats                                                       *)
(***************************************************************************)
ZeroStats == [totalPredictions |-> 0, fraudCount |-> 0,
              safeCount |-> 0, fraudPercentage |-> 0]

\* `x || d` on a number: 0 is falsy
OrElse(x, d) == IF x = 0 THEN d ELSE x

\* AnalyticsDashboard, drawn from <AnalyticsDashboard stats={stats} />:
\* the values of the pie chart
pieData ==
    [Safe  |-> OrElse(stats.safeCount, 85),
     Fraud |-> OrElse(stats.fraudCount, 15)]

\* the values of the four stat cards; the Fraud Rate is the percentage to one
\* decimal, (stats.fraudPercentage || 1.8).toFixed(1), held here in tenths
statCards ==
    [TotalPredictions |-> OrElse(stats.totalPredictions, 1247),
     FraudDetected    |-> OrElse(stats.fraudCount, 23),
     SafeTransactions |-> OrElse(stats.safeCount, 1224),
     FraudRateTenths  |-> OrElse(stats.fraudPercentage * 10, 18)]

\* bodies GET /stats can parse to
StatsBodies ==
    { JsonNull,
      [tag |-> "object", data |-> Absent],
      [tag |-> "object",
       data |-> Present([total_predictions |-> Present(3), fraud_count |-> Present(1),
                         safe_count |-> Present(2), fraud_percentage |-> Present(33)])],
      [tag |-> "object",
       data |-> Present([total_predictions |-> Present(5), fraud_count |-> Absent,
                         safe_count |-> Present(5), fraud_percentage |-> Present(0)])] }

\* fetchStats up to its first await: the request is issued
fetchStatsStart ==
    /\ statsAwaitFetch' = statsAwaitFetch + 1
    /\ statsStarted' = statsStarted + 1

\* useEffect(() => { fetchStats() }, [])
AppMount ==
    /\ ~appMounted
    /\ appMounted' = TRUE
    /\ fetchStatsStart
    /\ lastEvent' = [op |-> "mount"]
    /\ UNCHANGED <<appTornDown, prediction, isLoading, stats, predictReqs, statsAwaitJson,
                   toastSuccess, toastError, formVars, histVars, cardVars,
                   submitted, posts>>

\* a failure path of fetchStats that falls back to the zero defaults
fetchStatsFailedResets ==
    /\ stats' = ZeroStats
    /\ UNCHANGED <<toastSuccess, toastError>>

\* a failure path of fetchStats that notifies the user
fetchStatsFailedToasts ==
    /\ toastError' = toastError + 1
    /\ UNCHANGED <<stats, toastSuccess>>

\* the catch block and the fall-through paths of fetchStats: nothing is written
fetchStatsFailed ==
    /\ UNCHANGED <<stats, toastSuccess, toastError>>

\* a setStats that merges: a field absent from the response keeps its value
fetchStatsApplyMerges(d) ==
    /\ stats' = [totalPredictions |-> IF d.total_predictions = Absent
                                      THEN stats.totalPredictions
                                      ELSE d.total_predictions[1],
                 fraudCount       |-> IF d.fraud_count = Absent
                                      THEN stats.fraudCount ELSE d.fraud_count[1],
                 safeCount        |-> IF d.safe_count = Absent
                                      THEN stats.safeCount ELSE d.safe_count[1],
                 fraudPercentage  |-> IF d.fraud_percentage = Absent
                                      THEN stats.fraudPercentage
                                      ELSE d.fraud_percentage[1]]
    /\ UNCHANGED <<toastSuccess, toastError>>

\* setStats({...}) from data.data
fetchStatsApply(d) ==
    /\ stats' = [totalPredictions |-> OrZero(d.total_predictions),
                 fraudCount       |-> OrZero(d.fraud_count),
                 safeCount        |-> OrZero(d.safe_count),
                 fraudPercentage  |-> OrZero(d.fraud_percentage)]
    /\ UNCHANGED <<toastSuccess, toastError>>

\* `await fetch('/stats')` settles: rejected, or resolved with a status
StatsResponded ==
    /\ statsAwaitFetch > 0
    /\ statsAwaitFetch' = statsAwaitFetch - 1
    /\ \/ /\ fetchStatsFailed                      \* fetch rejects -> catch
          /\ lastEvent' = [op |-> "statsFail", why |-> "transport"]
          /\ UNCHANGED statsAwaitJson
       \/ \E status \in HttpStatuses :
            IF ResponseOk(status)
            THEN /\ statsAwaitJson' = statsAwaitJson + 1
                 /\ lastEvent' = [op |-> "statsOkStatus"]
                 /\ UNCHANGED <<stats, toastSuccess, toastError>>
            ELSE /\ fetchStatsFailed               \* if (response.ok) is skipped
                 /\ lastEvent' = [op |-> "statsFail", why |-> "status"]
                 /\ UNCHANGED statsAwaitJson
    /\ UNCHANGED <<appMounted, appTornDown, prediction, isLoading, predictReqs, formVars,
                   histVars, cardVars, appObs>>

\* `await response.json()` settles: rejected, or resolved with a body
StatsParsed ==
    /\ statsAwaitJson > 0
    /\ statsAwaitJson' = statsAwaitJson - 1
    /\ \/ /\ fetchStatsFailed                      \* json() rejects -> catch
          /\ lastEvent' = [op |-> "statsFail", why |-> "parse"]
       \/ \E body \in StatsBodies :
            IF body = JsonNull
            THEN /\ fetchStatsFailed               \* data.data throws -> catch
                 /\ lastEvent' = [op |-> "statsFail", why |-> "null"]
            ELSE IF body.data = Absent
            THEN /\ fetchStatsFailed               \* if (data.data) is skipped
                 /\ lastEvent' = [op |-> "statsFail", why |-> "nodata"]
            ELSE /\ fetchStatsApply(body.data[1])
                 /\ lastEvent' = [op |-> "statsOk", data |-> body.data[1],
                                  before |-> stats]
    /\ UNCHANGED <<appMounted, appTornDown, prediction, isLoading, predictReqs, statsAwaitFetch,
                   formVars, histVars, cardVars, appObs>>

(***************************************************************************)
(* AppContent: prediction                                                  *)
(***************************************************************************)
NULL == JsonNull      \* useState<any>(null)

\* bodies POST /predict can parse to (confidence in thousandths)
PredictBodies ==
    { JsonNull,
      [tag |-> "object", fraud |-> FALSE, confidence |-> 970],
      [tag |-> "object", fraud |-> TRUE,  confidence |-> 850] }

\* generateSafeTransaction() / generateFraudulentTransaction(): one draw each
generateSafeTransaction ==
    [f \in FieldNames |-> IF f = "time" THEN 5 ELSE IF f = "amount" THEN 20 ELSE 1]
generateFraudulentTransaction ==
    [f \in FieldNames |-> IF f = "time" THEN 5 ELSE IF f = "amount" THEN 500 ELSE 2]

\* the own keys of a transaction object, in insertion order
FieldOrder ==
    <<"time", "v1", "v2", "v3", "v4", "v5", "v6", "v7", "v8", "v9", "v10",
      "v11", "v12", "v13", "v14", "v15", "v16", "v17", "v18", "v19", "v20",
      "v21", "v22", "v23", "v24", "v25", "v26", "v27", "v28", "amount">>

DigitChars == <<"0", "1", "2", "3", "4", "5", "6", "7", "8", "9">>

\* the decimal digits of a natural number
RECURSIVE NatToText(_)
NatToText(n) ==
    IF n < 10 THEN <<DigitChars[n + 1]>>
    ELSE NatToText(n \div 10) \o <<DigitChars[(n % 10) + 1]>>

\* JSON text of a finite number
NumberToText(v) == IF v < 0 THEN <<"-">> \o NatToText(0 - v) ELSE NatToText(v)

\* a serialisation that leaves out the members whose value is 0
JSONstringifyDropsZeros(obj) ==
    LET keys == SelectSeq(FieldOrder, LAMBDA k : k \in DOMAIN obj /\ obj[k] # 0)
    IN  [i \in 1..Len(keys) |-> <<keys[i], NumberToText(obj[keys[i]])>>]

\* JSON.stringify(obj): one member per own key, in order, as <<key, text>>
JSONstringify(obj) ==
    LET keys == SelectSeq(FieldOrder, LAMBDA k : k \in DOMAIN obj)
    IN  [i \in 1..Len(keys) |-> <<keys[i], NumberToText(obj[keys[i]])>>]

\* setIsLoading(true); fetch(POST /predict, JSON.stringify(body)) up to the await
PredictStart(src, body) ==
    /\ isLoading' = TRUE
    /\ predictReqs' = Append(predictReqs,
                             [src |-> src, body |-> JSONstringify(body),
                              stage |-> "fetch",
                              pre |-> prediction])
    /\ posts' = posts + 1
    /\ submitted' = submitted + 1
    /\ lastEvent' = [op |-> "submit", src |-> src]
    /\ UNCHANGED <<appMounted, appTornDown, prediction, stats, statsAwaitFetch, statsAwaitJson,
                   toastSuccess, toastError, formVars, histVars, cardVars,
                   statsStarted>>

\* an unmount that aborts the requests in flight
AppUnmountAborts ==
    /\ appMounted
    /\ ~appTornDown
    /\ appTornDown' = TRUE
    /\ predictReqs' = <<>>
    /\ statsAwaitFetch' = 0
    /\ statsAwaitJson' = 0
    /\ lastEvent' = [op |-> "appUnmount"]
    /\ UNCHANGED <<appMounted, prediction, isLoading, stats, toastSuccess, toastError,
                   formVars, histVars, cardVars, appObs>>

\* AppContent is unmounted: its mount effect returns no cleanup and the
\* handlers hold no abort signal, so nothing else happens
AppUnmount ==
    /\ appMounted
    /\ ~appTornDown
    /\ appTornDown' = TRUE
    /\ lastEvent' = [op |-> "appUnmount"]
    /\ UNCHANGED <<appMounted, prediction, isLoading, stats, predictReqs,
                   statsAwaitFetch, statsAwaitJson, toastSuccess, toastError,
                   formVars, histVars, cardVars, appObs>>

\* a submit button that is not disabled while a request is in flight
HandleSubmitNotDisabled ==
    /\ appMounted
    /\ ~appTornDown
    /\ submitted < MaxSubmits
    /\ PredictStart("form", formData)

\* PredictionForm.handleSubmit -> onSubmit(formData) = handlePrediction(formData);
\* the submit button is disabled while isLoading
HandleSubmit ==
    /\ appMounted
    /\ ~appTornDown
    /\ ~isLoading
    /\ submitted < MaxSubmits
    /\ PredictStart("form", formData)

\* handleQuickTest(type); both buttons are disabled while isLoading
HandleQuickTest ==
    /\ appMounted
    /\ ~appTornDown
    /\ ~isLoading
    /\ submitted < MaxSubmits
    /\ \E type \in {"fraud", "safe"} :
         PredictStart("quick",
                      IF type = "fraud" THEN generateFraudulentTransaction
                                        ELSE generateSafeTransaction)

RemoveAt(s, i) == [j \in 1..(Len(s) - 1) |-> IF j < i THEN s[j] ELSE s[j + 1]]

\* a catch block that also clears the latest prediction
PredictCatchClears(i, why) ==
    /\ prediction' = NULL
    /\ toastError' = toastError + 1
    /\ isLoading' = FALSE
    /\ predictReqs' = RemoveAt(predictReqs, i)
    /\ lastEvent' = [op |-> "predictFail", why |-> why, src |-> predictReqs[i].src,
                     pre |-> predictReqs[i].pre]
    /\ UNCHANGED <<stats, statsAwaitFetch, statsAwaitJson, toastSuccess, statsStarted>>

\* a catch block with no finally: the loading flag is left set
PredictCatchKeepsLoading(i, why) ==
    /\ toastError' = toastError + 1
    /\ predictReqs' = RemoveAt(predictReqs, i)
    /\ lastEvent' = [op |-> "predictFail", why |-> why, src |-> predictReqs[i].src,
                     pre |-> predictReqs[i].pre]
    /\ UNCHANGED <<prediction, isLoading, stats, statsAwaitFetch, statsAwaitJson,
                   toastSuccess, statsStarted>>

\* catch { toast.error(...) } finally { setIsLoading(false) }
PredictCatch(i, why) ==
    /\ toastError' = toastError + 1
    /\ isLoading' = FALSE
    /\ predictReqs' = RemoveAt(predictReqs, i)
    /\ lastEvent' = [op |-> "predictFail", why |-> why, src |-> predictReqs[i].src,
                     pre |-> predictReqs[i].pre]
    /\ UNCHANGED <<prediction, stats, statsAwaitFetch, statsAwaitJson, toastSuccess,
                   statsStarted>>

\* a success path that keeps a prediction already stored
PredictThenKeepsFirst(i, result) ==
    /\ prediction' = IF prediction = NULL THEN result ELSE prediction
    /\ toastSuccess' = toastSuccess + 1
    /\ fetchStatsStart
    /\ isLoading' = FALSE
    /\ predictReqs' = RemoveAt(predictReqs, i)
    /\ lastEvent' = [op |-> "predictOk", result |-> result, src |-> predictReqs[i].src,
                     pre |-> predictReqs[i].pre]
    /\ UNCHANGED <<stats, statsAwaitJson, toastError>>

\* a success path that does not refresh the stats
PredictThenNoRefresh(i, result) ==
    /\ prediction' = result
    /\ toastSuccess' = toastSuccess + 1
    /\ isLoading' = FALSE
    /\ predictReqs' = RemoveAt(predictReqs, i)
    /\ lastEvent' = [op |-> "predictOk", result |-> result, src |-> predictReqs[i].src,
                     pre |-> predictReqs[i].pre]
    /\ UNCHANGED <<stats, statsAwaitFetch, statsAwaitJson, toastError, statsStarted>>

\* setPrediction(result); toast.success(...); fetchStats(); finally setIsLoading(false)
PredictThen(i, result) ==
    /\ prediction' = result
    /\ toastSuccess' = toastSuccess + 1
    /\ fetchStatsStart
    /\ isLoading' = FALSE
    /\ predictReqs' = RemoveAt(predictReqs, i)
    /\ lastEvent' = [op |-> "predictOk", result |-> result, src |-> predictReqs[i].src,
                     pre |-> predictReqs[i].pre]
    /\ UNCHANGED <<stats, statsAwaitJson, toastError>>

\* `await fetch('/predict', ...)` settles
PredictResponded ==
    /\ \E i \in 1..Len(predictReqs) :
         /\ predictReqs[i].stage = "fetch"
         /\ \/ PredictCatch(i, "transport")
            \/ \E status \in HttpStatuses :
                 IF ResponseOk(status)
                 THEN /\ predictReqs' = [predictReqs EXCEPT ![i].stage = "json"]
                      /\ lastEvent' = [op |-> "predictOkStatus"]
                      /\ UNCHANGED <<prediction, isLoading, stats, statsAwaitFetch,
                                     statsAwaitJson, toastSuccess, toastError,
                                     statsStarted>>
                 ELSE PredictCatch(i, "status")   \* throw new Error('Prediction failed')
    /\ UNCHANGED <<appMounted, appTornDown, formVars, histVars, cardVars, submitted, posts>>

\* `await response.json()` settles
PredictParsed ==
    /\ \E i \in 1..Len(predictReqs) :
         /\ predictReqs[i].stage = "json"
         /\ \/ PredictCatch(i, "parse")
            \/ \E result \in PredictBodies : PredictThen(i, result)
    /\ UNCHANGED <<appMounted, appTornDown, formVars, histVars, cardVars, submitted, posts>>

(***************************************************************************)
(* ResultCard                                                              *)
(***************************************************************************)
\* a value used as a condition: null is falsy, an object is truthy
Truthy(v) == v.tag = "object"

\* the three views of the card, from the props AppContent passes:
\* <ResultCard prediction={prediction} isLoading={isLoading} />
\* {!prediction && !isLoading && (... key="empty" ...)}
ShowsEmpty == ~Truthy(prediction) /\ ~isLoading

\* a loading view that is drawn only while there is no prediction
ShowsLoadingWithoutPrediction == isLoading /\ ~Truthy(prediction)

\* {isLoading && (... key="loading" ...)}
ShowsLoading == isLoading

\* {prediction && !isLoading && (... key="result" ...)}
ShowsResult == Truthy(prediction) /\ ~isLoading

\* getConfidenceColor with non-strict comparisons
getConfidenceColorNonStrict(confidence, isFraud) ==
    IF isFraud
    THEN IF confidence >= 800 THEN "from-red-500 to-rose-600"
         ELSE IF confidence >= 500 THEN "from-orange-500 to-amber-600"
         ELSE "from-yellow-500 to-amber-500"
    ELSE IF confidence <= 200 THEN "from-emerald-500 to-green-600"
         ELSE IF confidence <= 500 THEN "from-teal-500 to-emerald-500"
         ELSE "from-blue-500 to-cyan-500"

\* getConfidenceColor(confidence, isFraud); confidence in thousandths
getConfidenceColor(confidence, isFraud) ==
    IF isFraud
    THEN IF confidence > 800 THEN "from-red-500 to-rose-600"
         ELSE IF confidence > 500 THEN "from-orange-500 to-amber-600"
         ELSE "from-yellow-500 to-amber-500"
    ELSE IF confidence < 200 THEN "from-emerald-500 to-green-600"
         ELSE IF confidence < 500 THEN "from-teal-500 to-emerald-500"
         ELSE "from-blue-500 to-cyan-500"

\* confidence is a float in [0, 1]: every thousandth of it
Confidences == 0..1000

\* the headline: prediction.fraud ? 'Fraud Detected!' : 'Transaction Safe'
statusHeadline(isFraud) == IF isFraud THEN "Fraud Detected!" ELSE "Transaction Safe"

\* a bar width cut to whole percents
barWidthRounded(confidence) == Rat((confidence * 100) \div 1000, 1)

\* width: `${prediction.confidence * 100}%`; confidence in thousandths
barWidth(confidence) == Rat(confidence * 100, 1000)

MaxIdLen   == 18    \* characters in a transaction id
MaxCopies  == 2     \* clicks on the copy button per run

IdShownLen == 16

\* the characters of an id differ by position, so a cut is visible
IdChars == <<"0", "1", "2", "3", "4", "5", "6", "7", "8", "9",
             "a", "b", "c", "d", "e", "f">>
IdOfLen(n) == [i \in 1..n |-> IdChars[((i - 1) % 16) + 1]]

\* transaction_id?: string -- absent, empty, or 1..MaxIdLen characters
TransactionIds == {Absent} \cup {Present(IdOfLen(n)) : n \in 0..MaxIdLen}

\* a string is truthy unless it is empty; an absent field is undefined
IdTruthy(id) == id # Absent /\ Len(id[1]) > 0

\* String.prototype.slice(start, end) for 0 <= start, 0 <= end
strSlice(s, start, end) ==
    LET a == IF start < Len(s) THEN start ELSE Len(s)
        b == IF end < Len(s) THEN end ELSE Len(s)
    IN  IF a >= b THEN <<>> ELSE SubSeq(s, a + 1, b)

Ellipsis == <<".", ".", ".">>

\* an id display that leaves a short id as it is
idShownPlain(id) ==
    IF Len(id) <= IdShownLen THEN id ELSE strSlice(id, 0, IdShownLen) \o Ellipsis

\* {prediction.transaction_id.slice(0, 16)}...
idShown(id) == strSlice(id, 0, IdShownLen) \o Ellipsis

\* the result view is rendered for a prediction; useState `copied`, the
\* clipboard and the pending timeouts are not touched by a render
Render(fraud, confidence, id) ==
    /\ cardPrediction' = [tag |-> "object", fraud |-> fraud,
                          confidence |-> confidence, transaction_id |-> id]
    /\ cardColor' = getConfidenceColor(confidence, fraud)
    /\ cardHeadline' = statusHeadline(fraud)
    /\ cardBarWidth' = barWidth(confidence)
    /\ cardIdText' = IF IdTruthy(id) THEN Present(idShown(id[1])) ELSE Absent
    /\ lastEvent' = [op |-> "render"]
    /\ UNCHANGED <<appVars, appObs, formVars, histVars, copied, clipboard, copyTimers>>

\* a render for every verdict and confidence, the response carrying no id
CardRender ==
    \E fraud \in BOOLEAN, confidence \in Confidences :
        Render(fraud, confidence, Absent)

\* a render for every id, at the confidences of the two stub results
CardRenderId ==
    \E fraud \in BOOLEAN, confidence \in {850, 970}, id \in TransactionIds :
        Render(fraud, confidence, id)

\* copyTransactionId, called by the copy button (drawn only with the id row)
copyTransactionId ==
    /\ cardPrediction # NULL
    /\ cardIdText # Absent
    /\ copyTimers < MaxCopies
    /\ IF IdTruthy(cardPrediction.transaction_id)
       THEN /\ clipboard' = Present(cardPrediction.transaction_id[1])
            /\ copied' = TRUE
            /\ copyTimers' = copyTimers + 1
       ELSE UNCHANGED <<clipboard, copied, copyTimers>>
    /\ lastEvent' = [op |-> "copy"]
    /\ UNCHANGED <<appVars, appObs, formVars, histVars, cardPrediction, cardColor,
                   cardHeadline, cardBarWidth, cardIdText>>

\* a setTimeout(() => setCopied(false), 2000) callback runs
CopiedTimeout ==
    /\ copyTimers > 0
    /\ copyTimers' = copyTimers - 1
    /\ copied' = FALSE
    /\ lastEvent' = [op |-> "copyTimeout"]
    /\ UNCHANGED <<appVars, appObs, formVars, histVars, cardPrediction, cardColor,
                   cardHeadline, cardBarWidth, cardIdText, clipboard>>

(***************************************************************************)
(* TransactionHistory                                                      *)
(***************************************************************************)
MaxRecords      == 21   \* records in a /recent response
MaxSeed         == 1    \* distinct contents per response length
MaxFetches      == 3    \* /recent exchanges started per run
MaxSearchLen    == 1    \* characters in the search box
MaxBothSubmits  == 1    \* submissions per run where the history polls as well
MaxBothFetches  == 2    \* /recent exchanges per run where predictions run as well

itemsPerPage == 10
MockCount    == 25

Min(a, b) == IF a < b THEN a ELSE b
Max(a, b) == IF a > b THEN a ELSE b

\* String.prototype.toLowerCase, character by character
LowerChar(c) == CASE c = "A" -> "a" [] c = "B" -> "b" [] OTHER -> c
toLowerCase(s) == [i \in 1..Len(s) |-> LowerChar(s[i])]

\* String.prototype.includes
includes(s, q) ==
    \E k \in 0..(Len(s) - Len(q)) : SubSeq(s, k + 1, k + Len(q)) = q

\* Array.prototype.slice(start, end) for 0 <= start, 0 <= end
slice(s, start, end) ==
    LET a == Min(start, Len(s))
        b == Min(end, Len(s))
    IN  IF a >= b THEN <<>> ELSE SubSeq(s, a + 1, b)

\* Math.ceil(n / d) for n >= 0, d > 0
Ceil(n, d) == IF n % d = 0 THEN n \div d ELSE (n \div d) + 1

\* the i-th record of a /recent response: ids of mixed case, some records
\* without a transaction_id, both statuses
Letter(k) == <<"a", "A", "b", "B">>[(k % 4) + 1]
ServerRecord(i, seed) ==
    [_id            |-> <<"db", i>>,
     transaction_id |-> IF (i + seed) % 5 = 4 THEN Absent
                        ELSE Present(<<Letter(i + seed), Letter(i \div 2)>>),
     prediction     |-> ((i + 2 * seed) % 3 = 0)]
Snapshot(n, seed) == [i \in 1..n |-> ServerRecord(i, seed)]

\* bodies GET /recent can parse to
HistoryBodies ==
    {JsonNull, [tag |-> "object", data |-> Absent]}
    \cup {[tag |-> "object", data |-> Present(Snapshot(n, seed))] :
            n \in 0..MaxRecords, seed \in 0..MaxSeed}

\* generateMockTransactions(): Array.from({length: 25}, (_, i) => ...); the
\* draws of Math.random() are summarised by a seed
generateMockTransactions(seed) ==
    [k \in 1..MockCount |->
        [_id            |-> <<"mock", k - 1>>,
         transaction_id |-> Present(<<"t", "x", "n", "_", Letter(2 * (k + seed))>>),
         prediction     |-> ((k + seed) % 7 = 0)]]

\* const filteredTransactions = transactions.filter(tx => ...)
matchesFilter(tx) ==
    \/ filter = "all"
    \/ (filter = "fraud" /\ tx.prediction)
    \/ (filter = "safe" /\ ~tx.prediction)

\* a search that compares without lower-casing
matchesSearchCaseSensitive(tx) ==
    \/ searchQuery = <<>>
    \/ /\ tx.transaction_id # Absent
       /\ includes(tx.transaction_id[1], searchQuery)

matchesSearch(tx) ==
    \/ searchQuery = <<>>
    \/ /\ tx.transaction_id # Absent      \* tx.transaction_id?. is undefined
       /\ includes(toLowerCase(tx.transaction_id[1]), toLowerCase(searchQuery))

filteredTransactions ==
    SelectSeq(transactions, LAMBDA tx : matchesFilter(tx) /\ matchesSearch(tx))

\* a page count that rounds down
totalPagesFloor == Len(filteredTransactions) \div itemsPerPage

\* const totalPages = Math.ceil(filteredTransactions.length / itemsPerPage)
totalPages == Ceil(Len(filteredTransactions), itemsPerPage)

\* a page slice whose end is one record too far
PageSliceInclusive(page) ==
    slice(filteredTransactions, (page - 1) * itemsPerPage, page * itemsPerPage + 1)

\* filteredTransactions.slice((page - 1) * itemsPerPage, page * itemsPerPage)
PageSlice(page) ==
    slice(filteredTransactions, (page - 1) * itemsPerPage, page * itemsPerPage)

paginatedTransactions == PageSlice(currentPage)

\* fetchTransactions up to its first await: setLoading(true), request issued
fetchTransactionsStart ==
    /\ loading' = TRUE
    /\ histAwaitFetch' = histAwaitFetch + 1
    /\ histStarted' = histStarted + 1

HistInFlight == histAwaitFetch + histAwaitJson

\* useEffect(() => { fetchTransactions(); const interval = setInterval(...) ... }, [])
HistMount ==
    /\ histPhase = "init"
    /\ histPhase' = "mounted"
    /\ fetchTransactionsStart
    /\ timerActive' = TRUE
    /\ lastEvent' = [op |-> "histMount"]
    /\ UNCHANGED <<transactions, filter, searchQuery, currentPage, histAwaitJson,
                   appVars, appObs, formVars, cardVars>>

\* a poll that raises the application's loading flag as well
TimerTickSharedLoading ==
    /\ timerActive
    /\ histStarted < MaxFetches
    /\ fetchTransactionsStart
    /\ isLoading' = TRUE
    /\ lastEvent' = [op |-> "tick"]
    /\ UNCHANGED <<histPhase, timerActive, transactions, filter, searchQuery,
                   currentPage, histAwaitJson, appMounted, appTornDown, prediction,
                   stats,
                   predictReqs, statsAwaitFetch, statsAwaitJson, toastSuccess,
                   toastError, appObs, formVars, cardVars>>

\* the interval fires: setInterval(fetchTransactions, 30000)
TimerTick ==
    /\ timerActive
    /\ histStarted < MaxFetches
    /\ fetchTransactionsStart
    /\ lastEvent' = [op |-> "tick"]
    /\ UNCHANGED <<histPhase, timerActive, transactions, filter, searchQuery,
                   currentPage, histAwaitJson, appVars, appObs, formVars, cardVars>>

\* the Refresh button: onClick={fetchTransactions} disabled={loading}
Refresh ==
    /\ histPhase = "mounted"
    /\ ~loading
    /\ histStarted < MaxFetches
    /\ fetchTransactionsStart
    /\ lastEvent' = [op |-> "refresh"]
    /\ UNCHANGED <<histPhase, timerActive, transactions, filter, searchQuery,
                   currentPage, histAwaitJson, appVars, appObs, formVars, cardVars>>

\* a teardown that leaves the interval running
HistUnmountLeak ==
    /\ histPhase = "mounted"
    /\ histPhase' = "unmounted"
    /\ lastEvent' = [op |-> "histUnmount"]
    /\ UNCHANGED <<timerActive, transactions, loading, filter, searchQuery, currentPage,
                   histAwaitFetch, histAwaitJson, histStarted,
                   appVars, appObs, formVars, cardVars>>

\* the effect's cleanup: return () => clearInterval(interval)
HistUnmount ==
    /\ histPhase = "mounted"
    /\ histPhase' = "unmounted"
    /\ timerActive' = FALSE
    /\ lastEvent' = [op |-> "histUnmount"]
    /\ UNCHANGED <<transactions, loading, filter, searchQuery, currentPage,
                   histAwaitFetch, histAwaitJson, histStarted,
                   appVars, appObs, formVars, cardVars>>

IsLive(list) == Len(list) > 0 /\ list[1]._id[1] = "db"

\* a failure path that keeps the list it had
fetchTransactionsFailedKeeps(why) ==
    /\ transactions' = transactions
    /\ loading' = FALSE
    /\ lastEvent' = [op |-> "histFail", why |-> why, hadLive |-> IsLive(transactions)]

\* setTransactions(generateMockTransactions()) ... finally setLoading(false)
fetchTransactionsFailed(why) ==
    /\ \E seed \in 0..MaxSeed : transactions' = generateMockTransactions(seed)
    /\ loading' = FALSE
    /\ lastEvent' = [op |-> "histFail", why |-> why, hadLive |-> IsLive(transactions)]

\* a success path that falls back to mock records when the body has no list
fetchTransactionsApplyOrMocks(body) ==
    /\ transactions' = IF body.data = Absent THEN generateMockTransactions(0)
                       ELSE body.data[1]
    /\ loading' = FALSE
    /\ lastEvent' = [op |-> "histOk"]

\* setTransactions(data.data || []) ... finally setLoading(false)
fetchTransactionsApply(body) ==
    /\ transactions' = IF body.data = Absent THEN <<>> ELSE body.data[1]
    /\ loading' = FALSE
    /\ lastEvent' = [op |-> "histOk"]

\* `await fetch('/recent?limit=50')` settles
HistResponded ==
    /\ histAwaitFetch > 0
    /\ histAwaitFetch' = histAwaitFetch - 1
    /\ \/ /\ fetchTransactionsFailed("transport")       \* fetch rejects -> catch
          /\ UNCHANGED histAwaitJson
       \/ \E status \in HttpStatuses :
            IF ResponseOk(status)
            THEN /\ histAwaitJson' = histAwaitJson + 1
                 /\ lastEvent' = [op |-> "histOkStatus"]
                 /\ UNCHANGED <<transactions, loading>>
            ELSE /\ fetchTransactionsFailed("status")   \* the else branch
                 /\ UNCHANGED histAwaitJson
    /\ UNCHANGED <<histPhase, timerActive, filter, searchQuery, currentPage,
                   histStarted, appVars, appObs, formVars, cardVars>>

\* `await response.json()` settles, the body being one of `bodies`
HistParsedFrom(bodies) ==
    /\ histAwaitJson > 0
    /\ histAwaitJson' = histAwaitJson - 1
    /\ \/ fetchTransactionsFailed("parse")               \* json() rejects -> catch
       \/ \E body \in bodies :
            IF body = JsonNull
            THEN fetchTransactionsFailed("null")         \* data.data throws -> catch
            ELSE fetchTransactionsApply(body)
    /\ UNCHANGED <<histPhase, timerActive, filter, searchQuery, currentPage,
                   histAwaitFetch, histStarted, appVars, appObs, formVars, cardVars>>

HistParsed == HistParsedFrom(HistoryBodies)

\* the bodies of a backend that holds two records at most
ShortHistoryBodies ==
    {JsonNull, [tag |-> "object", data |-> Absent],
     [tag |-> "object", data |-> Present(Snapshot(0, 0))],
     [tag |-> "object", data |-> Present(Snapshot(2, 0))]}

\* the search box and the status select
Chars == {"a", "B"}
SearchQueries ==
    UNION {[1..n -> Chars] : n \in 0..MaxSearchLen}

SetSearchQuery ==
    /\ histPhase = "mounted"
    /\ \E q \in SearchQueries : searchQuery' = q
    /\ lastEvent' = [op |-> "setSearchQuery"]
    /\ UNCHANGED <<histPhase, timerActive, transactions, loading, filter, currentPage,
                   histAwaitFetch, histAwaitJson, histStarted,
                   appVars, appObs, formVars, cardVars>>

\* a status select that also goes back to the first page
SetFilterResetsPage ==
    /\ histPhase = "mounted"
    /\ \E v \in {"all", "fraud", "safe"} : filter' = v
    /\ currentPage' = 1
    /\ lastEvent' = [op |-> "setFilter"]
    /\ UNCHANGED <<histPhase, timerActive, transactions, loading, searchQuery,
                   histAwaitFetch, histAwaitJson, histStarted,
                   appVars, appObs, formVars, cardVars>>

SetFilter ==
    /\ histPhase = "mounted"
    /\ \E v \in {"all", "fraud", "safe"} : filter' = v
    /\ lastEvent' = [op |-> "setFilter"]
    /\ UNCHANGED <<histPhase, timerActive, transactions, loading, searchQuery,
                   currentPage, histAwaitFetch, histAwaitJson, histStarted,
                   appVars, appObs, formVars, cardVars>>

\* the pagination controls are rendered when the table is (the list view is not
\* in its loading or empty branch) and totalPages > 1
PaginationShown ==
    /\ histPhase = "mounted"
    /\ ~(loading /\ Len(transactions) = 0)
    /\ Len(paginatedTransactions) # 0
    /\ totalPages > 1

\* onClick={() => setCurrentPage(p => Math.max(1, p - 1))} disabled={currentPage === 1}
PreviousPage ==
    /\ PaginationShown
    /\ currentPage # 1
    /\ currentPage' = Max(1, currentPage - 1)
    /\ lastEvent' = [op |-> "previousPage"]
    /\ UNCHANGED <<histPhase, timerActive, transactions, loading, filter, searchQuery,
                   histAwaitFetch, histAwaitJson, histStarted,
                   appVars, appObs, formVars, cardVars>>

\* onClick={() => setCurrentPage(p => Math.min(totalPages, p + 1))}
\* disabled={currentPage === totalPages}
NextPage ==
    /\ PaginationShown
    /\ currentPage # totalPages
    /\ currentPage' = Min(totalPages, currentPage + 1)
    /\ lastEvent' = [op |-> "nextPage"]
    /\ UNCHANGED <<histPhase, timerActive, transactions, loading, filter, searchQuery,
                   histAwaitFetch, histAwaitJson, histStarted,
                   appVars, appObs, formVars, cardVars>>

(***************************************************************************)
(* Specifications                                                          *)
(***************************************************************************)
InitApp ==
    /\ appMounted = FALSE
    /\ appTornDown = FALSE
    /\ prediction = NULL
    /\ isLoading = FALSE
    /\ stats = ZeroStats
    /\ predictReqs = <<>>
    /\ statsAwaitFetch = 0
    /\ statsAwaitJson = 0
    /\ toastSuccess = 0
    /\ toastError = 0
    /\ formData = defaultValues
    /\ fillProgress = Rat(0, 1)
    /\ edits = 0
    /\ submitted = 0
    /\ posts = 0
    /\ statsStarted = 0

InitHistory ==
    /\ histPhase = "init"
    /\ timerActive = FALSE
    /\ transactions = <<>>
    /\ loading = TRUE
    /\ filter = "all"
    /\ searchQuery = <<>>
    /\ currentPage = 1
    /\ histAwaitFetch = 0
    /\ histAwaitJson = 0
    /\ histStarted = 0

InitCard ==
    /\ cardPrediction = NULL
    /\ cardColor = ""
    /\ cardHeadline = ""
    /\ cardBarWidth = Rat(0, 1)
    /\ cardIdText = Absent
    /\ copied = FALSE
    /\ clipboard = Absent
    /\ copyTimers = 0

\* the state after construction, before any effect has run
Init ==
    /\ InitApp
    /\ InitHistory
    /\ InitCard
    /\ lastEvent = [op |-> "init"]

\* the application with the user leaving the form's fields alone
NextApp ==
    \/ AppMount
    \/ HandleSubmit
    \/ HandleQuickTest
    \/ PredictResponded
    \/ PredictParsed
    \/ StatsResponded
    \/ StatsParsed
    \/ fillRandomData
    \/ handleReset

SpecApp == Init /\ [][NextApp]_vars

\* the form alone
NextForm ==
    \/ HandleChange
    \/ handleReset
    \/ fillRandomData

SpecForm == Init /\ [][NextForm]_vars

\* the form being filled in and submitted, up to the request leaving
NextSubmit ==
    \/ AppMount
    \/ (edits < MaxSubmitEdits /\ HandleChange)
    \/ handleReset
    \/ fillRandomData
    \/ HandleSubmit

SpecSubmit == Init /\ [][NextSubmit]_vars

\* the history view's fetch cycle: mount, poll, refresh, teardown
NextHistory ==
    \/ HistMount
    \/ TimerTick
    \/ Refresh
    \/ HistUnmount
    \/ HistResponded
    \/ HistParsed

SpecHistory == Init /\ [][NextHistory]_vars

\* the prediction flow and the history poll side by side
NextBoth ==
    \/ AppMount
    \/ (submitted < MaxBothSubmits /\ HandleSubmit)
    \/ PredictResponded
    \/ PredictParsed
    \/ StatsResponded
    \/ StatsParsed
    \/ HistMount
    \/ (histStarted < MaxBothFetches /\ TimerTick)
    \/ HistResponded
    \/ HistParsedFrom(ShortHistoryBodies)

SpecBoth == Init /\ [][NextBoth]_vars

\* both components torn down with requests in flight
NextTeardown ==
    \/ AppMount
    \/ (submitted < MaxBothSubmits /\ HandleSubmit)
    \/ PredictResponded
    \/ PredictParsed
    \/ StatsResponded
    \/ StatsParsed
    \/ AppUnmount
    \/ HistMount
    \/ HistUnmount
    \/ HistResponded
    \/ HistParsedFrom(ShortHistoryBodies)

SpecTeardown == Init /\ [][NextTeardown]_vars

\* the history view over a fetched list: the first fetch has completed, with
\* any of the lists a fetch can leave behind
FetchedLists ==
    {<<>>}
    \cup {body.data[1] : body \in {b \in HistoryBodies \ {JsonNull} : b.data # Absent}}
    \cup {generateMockTransactions(seed) : seed \in 0..MaxSeed}

InitView ==
    /\ InitApp
    /\ InitCard
    /\ histPhase = "mounted"
    /\ timerActive = TRUE
    /\ transactions \in FetchedLists
    /\ loading = FALSE
    /\ filter = "all"
    /\ searchQuery = <<>>
    /\ currentPage = 1
    /\ histAwaitFetch = 0
    /\ histAwaitJson = 0
    /\ histStarted = 1
    /\ lastEvent = [op |-> "histOk"]

NextView ==
    \/ SetSearchQuery
    \/ SetFilter
    \/ PreviousPage
    \/ NextPage

SpecView == InitView /\ [][NextView]_vars

\* the result card alone
NextCard == CardRender

SpecCard == Init /\ [][NextCard]_vars

\* the result view's transaction id row and its copy button
NextCardId ==
    \/ CardRenderId
    \/ copyTransactionId
    \/ CopiedTimeout

SpecCardId == Init /\ [][NextCardId]_vars

(***************************************************************************)
(* Properties                                                              *)
(***************************************************************************)
PredictDone(op) == op = "predictOk" \/ op = "predictFail"

\* C1: every submission issues exactly one POST /predict, raises isLoading
\* exactly once (false -> true at submit) and lowers it exactly once (true ->
\* false at completion); at completion the latest-prediction slot holds the
\* parsed response on success and its pre-submit value on failure.
C1_OneExchangePerSubmit ==
    [][ /\ (submitted' # submitted =>
              /\ submitted' = submitted + 1
              /\ posts' = posts + 1
              /\ ~isLoading /\ isLoading')
        /\ (posts' # posts => submitted' = submitted + 1)
        /\ (isLoading' # isLoading =>
              submitted' # submitted \/ PredictDone(lastEvent'.op))
        /\ (lastEvent'.op = "predictOk" =>
              /\ isLoading /\ ~isLoading'
              /\ prediction' = lastEvent'.result)
        /\ (lastEvent'.op = "predictFail" =>
              /\ isLoading /\ ~isLoading'
              /\ prediction' = lastEvent'.pre)
        /\ toastSuccess' + toastError' + Len(predictReqs') = submitted'
      ]_vars

\* C1 witness: a form submission completed successfully and replaced an
\* earlier, different prediction
C1_Witness ==
    /\ lastEvent.op = "predictOk"
    /\ lastEvent.src = "form"
    /\ lastEvent.pre # NULL
    /\ lastEvent.pre # lastEvent.result
    /\ prediction = lastEvent.result
    /\ ~isLoading

\* C2: a failed POST /predict (transport, status or parse failure alike) leaves
\* the latest-prediction slot at its pre-call value (null on a first attempt),
\* produces exactly one failure notification and no success notification,
\* starts no stats fetch, and returns isLoading to false.
C2_FailureLeavesPrediction ==
    [][ lastEvent'.op = "predictFail" =>
          /\ lastEvent'.why \in {"transport", "status", "parse"}
          /\ prediction' = prediction
          /\ prediction' = lastEvent'.pre
          /\ (submitted = 1 => prediction' = NULL)
          /\ toastError' = toastError + 1
          /\ toastSuccess' = toastSuccess
          /\ statsStarted' = statsStarted
          /\ statsAwaitFetch' = statsAwaitFetch
          /\ ~isLoading'
      ]_vars

\* C2 witness: the backend answered a non-2xx status after an earlier
\* prediction had been stored
C2_Witness ==
    /\ lastEvent.op = "predictFail"
    /\ lastEvent.why = "status"
    /\ prediction # NULL
    /\ toastError = 1
    /\ ~isLoading

\* C3: the colour is a function of the tier alone, the tiers being: fraud and
\* confidence > 0.8 high, 0.5 < confidence <= 0.8 medium, confidence <= 0.5
\* low; safe and confidence < 0.2 very safe, 0.2 <= confidence < 0.5 safe,
\* confidence >= 0.5 borderline safe; and the six tiers have six different
\* colours.
TierOf(fraud, confidence) ==
    IF fraud
    THEN CASE confidence > 800                        -> "high"
           [] confidence > 500 /\ confidence <= 800   -> "medium"
           [] confidence <= 500                       -> "low"
    ELSE CASE confidence < 200                        -> "very-safe"
           [] confidence >= 200 /\ confidence < 500   -> "safe"
           [] confidence >= 500                       -> "borderline-safe"

Tiers == {"high", "medium", "low", "very-safe", "safe", "borderline-safe"}

\* one input inside each tier
TierSample(tier) ==
    CASE tier = "high"            -> [fraud |-> TRUE,  confidence |-> 850]
      [] tier = "medium"          -> [fraud |-> TRUE,  confidence |-> 600]
      [] tier = "low"             -> [fraud |-> TRUE,  confidence |-> 300]
      [] tier = "very-safe"       -> [fraud |-> FALSE, confidence |-> 100]
      [] tier = "safe"            -> [fraud |-> FALSE, confidence |-> 300]
      [] tier = "borderline-safe" -> [fraud |-> FALSE, confidence |-> 970]

TierColor(tier) ==
    getConfidenceColor(TierSample(tier).confidence, TierSample(tier).fraud)

C3_TierSelection ==
    cardPrediction # NULL =>
        LET tier == TierOf(cardPrediction.fraud, cardPrediction.confidence) IN
        /\ \A t \in Tiers : TierOf(TierSample(t).fraud, TierSample(t).confidence) = t
        /\ cardColor = TierColor(tier)
        /\ \A other \in Tiers \ {tier} : cardColor # TierColor(other)

\* C3 witness: a fraud result at exactly 0.5 is drawn in the low tier's colour
C3_Witness ==
    /\ cardPrediction # NULL
    /\ cardPrediction.fraud
    /\ cardPrediction.confidence = 500
    /\ cardColor = TierColor("low")

\* C4: after a field edit the completion percentage is in [0, 100] and equals
\* 100 x (number of the 30 draft fields whose value is not 0) / 30.
C4_ProgressAfterEdit ==
    lastEvent.op = "handleChange" =>
        /\ Cardinality(DOMAIN formData) = 30
        /\ RatEq(fillProgress,
                 Rat(100 * Cardinality({f \in FieldNames : formData[f] # 0}), 30))
        /\ RatLe(Rat(0, 1), fillProgress)
        /\ RatLe(fillProgress, Rat(100, 1))

\* C4 witness: after a random fill, two fields were edited back to 0
C4_Witness ==
    /\ lastEvent.op = "handleChange"
    /\ edits = 2
    /\ CountNonZero(formData) = 28
    /\ RatEq(fillProgress, Rat(2800, 30))

\* C5: the filtered list holds exactly the records of the snapshot that match
\* the status filter and (when the search string is not empty) whose
\* transaction_id contains the search string case-insensitively, in the
\* snapshot's order; with filter 'all' and an empty search it is the snapshot.
ContainsIgnoringCase(id, q) ==
    \E k \in 0..(Len(id) - Len(q)) :
        \A j \in 1..Len(q) : LowerChar(id[k + j]) = LowerChar(q[j])

StatusMatches(tx) ==
    CASE filter = "fraud" -> tx.prediction = TRUE
      [] filter = "safe"  -> tx.prediction = FALSE
      [] filter = "all"   -> TRUE

SearchMatches(tx) ==
    tx.transaction_id # Absent /\ ContainsIgnoringCase(tx.transaction_id[1], searchQuery)

Elements(list) == {list[i] : i \in 1..Len(list)}

C5_FilterIsPure ==
    LET F == filteredTransactions
        byStatus == {tx \in Elements(transactions) : StatusMatches(tx)}
        bySearch == {tx \in Elements(transactions) : SearchMatches(tx)}
    IN  /\ (filter = "fraud" => \A i \in 1..Len(F) : F[i].prediction = TRUE)
        /\ (filter = "safe" => \A i \in 1..Len(F) : F[i].prediction = FALSE)
        /\ (searchQuery # <<>> => Elements(F) = byStatus \cap bySearch)
        /\ (searchQuery = <<>> => Elements(F) = byStatus)
        /\ (filter = "all" /\ searchQuery = <<>> => F = transactions)
        /\ \A i, j \in 1..Len(F) : i < j => F[i]._id[2] < F[j]._id[2]

\* C5 witness: 'fraud' combined with a search keeps some fraud records and
\* drops others, and keeps one whose id matches only when case is ignored
C5_Witness ==
    LET F == filteredTransactions IN
    /\ filter = "fraud"
    /\ searchQuery = <<"a">>
    /\ Len(F) > 0
    /\ \E i \in 1..Len(transactions) :
         transactions[i].prediction /\ transactions[i] \notin Elements(F)
    /\ \E i \in 1..Len(F) :
         ~includes(F[i].transaction_id[1], searchQuery)

\* C6: with M filtered records and 10 per page, totalPages is ceil(M / 10),
\* every page before the last shows 10 records, and the last page shows
\* M mod 10 records, or 10 when M is a positive multiple of 10.
C6_Pagination ==
    LET M == Len(filteredTransactions) IN
    /\ totalPages * 10 >= M
    /\ (totalPages - 1) * 10 < M \/ (M = 0 /\ totalPages = 0)
    /\ \A p \in 1..(totalPages - 1) : Len(PageSlice(p)) = 10
    /\ (M > 0 =>
          Len(PageSlice(totalPages)) = IF M % 10 = 0 THEN 10 ELSE M % 10)

\* C6 witness: 21 filtered records, the third and last page shows one
C6_Witness ==
    /\ Len(filteredTransactions) = 21
    /\ totalPages = 3
    /\ currentPage = 3
    /\ Len(paginatedTransactions) = 1

\* C7: mounting starts one fetch and the timer; every timer tick while mounted
\* starts one more fetch, whatever the state of earlier fetches; after
\* teardown the timer is cancelled and no fetch is started any more.
C7_PollUntilTeardown ==
    [][ /\ (lastEvent'.op = "histMount" =>
              histStarted = 0 /\ histStarted' = 1 /\ timerActive')
        /\ (lastEvent'.op = "tick" =>
              histPhase = "mounted" /\ histStarted' = histStarted + 1)
        /\ (histPhase = "mounted" /\ histStarted < MaxFetches => ENABLED TimerTick)
        /\ (histPhase = "unmounted" => ~timerActive /\ histStarted' = histStarted)
        /\ (histPhase' = "unmounted" => ~timerActive')
      ]_vars

\* C7 witness: ticks started fetches while earlier ones were still in flight,
\* and the view was then torn down
C7_Witness ==
    /\ histPhase = "unmounted"
    /\ histStarted = 3
    /\ HistInFlight = 3
    /\ ~timerActive

\* C8: a failed history fetch replaces the list, whatever it held, by 25 mock
\* records with the distinct ids mock_0 .. mock_24, returns loading to false
\* and surfaces no error.
C8_FailureSubstitutesMocks ==
    [][ lastEvent'.op = "histFail" =>
          /\ lastEvent'.why \in {"transport", "status", "parse", "null"}
          /\ Len(transactions') = 25
          /\ \A k \in 1..25 : transactions'[k]._id = <<"mock", k - 1>>
          /\ \A k, m \in 1..25 : k # m => transactions'[k]._id # transactions'[m]._id
          /\ ~loading'
          /\ toastError' = toastError /\ toastSuccess' = toastSuccess
      ]_vars

\* C8 witness: the list held live records when a fetch was answered non-2xx
C8_Witness ==
    /\ lastEvent.op = "histFail"
    /\ lastEvent.why = "status"
    /\ lastEvent.hadLive
    /\ Len(transactions) = 25
    /\ ~loading

\* C9: a failed stats fetch (transport, status, parse, or a body without a
\* data object) changes none of the four stats fields and shows no
\* notification; so the stats change only when a stats fetch succeeds.
C9_StatsFailureRetains ==
    [][ /\ (lastEvent'.op = "statsFail" =>
              /\ stats'.totalPredictions = stats.totalPredictions
              /\ stats'.fraudCount = stats.fraudCount
              /\ stats'.safeCount = stats.safeCount
              /\ stats'.fraudPercentage = stats.fraudPercentage
              /\ toastError' = toastError /\ toastSuccess' = toastSuccess)
        /\ (stats' # stats => lastEvent'.op = "statsOk")
      ]_vars

\* C9 witness: a body without a data object arrived after an earlier fetch
\* had stored non-default stats
C9_Witness ==
    /\ lastEvent.op = "statsFail"
    /\ lastEvent.why = "nodata"
    /\ stats # ZeroStats

\* C10: a stats fetch is started once by the mount and once by each successful
\* prediction exchange, and by nothing else (not by a failed exchange).
C10_StatsFetchTriggers ==
    [][ /\ (lastEvent'.op = "mount" => statsStarted = 0 /\ statsStarted' = 1)
        /\ (lastEvent'.op = "predictOk" => statsStarted' = statsStarted + 1)
        /\ (lastEvent'.op = "predictFail" => statsStarted' = statsStarted)
        /\ (statsStarted' # statsStarted =>
              lastEvent'.op = "mount" \/ lastEvent'.op = "predictOk")
        /\ statsStarted' = (IF appMounted' THEN 1 ELSE 0) + toastSuccess'
      ]_vars

\* C10 witness: two successful exchanges and one failed one after the mount
C10_Witness ==
    /\ statsStarted = 3
    /\ toastSuccess = 2
    /\ toastError = 1
    /\ predictReqs = <<>>

\* C11: in no reachable state are two responses pending that will write the
\* same slot (the latest prediction, or the latest stats).
C11_NoConcurrentWriters ==
    /\ Len(predictReqs) <= 1
    /\ statsAwaitFetch + statsAwaitJson <= 1

\* C12: at most one prediction request is in flight, isLoading is true exactly
\* while one is, both ways of submitting are disabled while isLoading and
\* possible again after every completed exchange, failures included.
C12_LoadingGuardsSubmission ==
    /\ Len(predictReqs) <= 1
    /\ (isLoading <=> Len(predictReqs) = 1)
    /\ (isLoading => ~ENABLED HandleSubmit /\ ~ENABLED HandleQuickTest)
    /\ (PredictDone(lastEvent.op) => ~isLoading)
    /\ (~isLoading /\ appMounted /\ submitted < MaxSubmits =>
          ENABLED HandleSubmit /\ ENABLED HandleQuickTest)

\* C12 witness: an exchange has just failed on an unparsable body and the next
\* submission is possible
C12_Witness ==
    /\ lastEvent.op = "predictFail"
    /\ lastEvent.why = "parse"
    /\ ~isLoading
    /\ predictReqs = <<>>
    /\ ENABLED HandleSubmit

\* C13: a successful exchange lowers isLoading and notifies success in the
\* step that starts the stats fetch, without waiting for it; a failing stats
\* fetch leaves the stored prediction and produces no failure notification.
C13_StatsRefreshFireAndForget ==
    [][ /\ (lastEvent'.op = "predictOk" =>
              /\ ~isLoading'
              /\ toastSuccess' = toastSuccess + 1
              /\ statsAwaitFetch' = statsAwaitFetch + 1
              /\ statsAwaitFetch' + statsAwaitJson' > 0)
        /\ (lastEvent'.op = "statsFail" =>
              /\ prediction' = prediction
              /\ isLoading' = isLoading
              /\ toastError' = toastError)
      ]_vars

\* C13 witness: the stats fetch failed on its transport after a prediction was
\* stored; the prediction is still there and no failure was notified
C13_Witness ==
    /\ lastEvent.op = "statsFail"
    /\ lastEvent.why = "transport"
    /\ prediction # NULL
    /\ toastSuccess = 1
    /\ toastError = 0
    /\ ~isLoading

\* C15: the latest-prediction slot is one result: null until an exchange
\* succeeds, replaced by the response of each successful exchange, and changed
\* by nothing else (not by a failed exchange).
C15_LatestPredictionReplaced ==
    [][ /\ (lastEvent'.op = "predictOk" => prediction' = lastEvent'.result)
        /\ (lastEvent'.op # "predictOk" => prediction' = prediction)
        /\ (toastSuccess' = 0 => prediction' = NULL)
        /\ prediction' \in PredictBodies
      ]_vars

\* C15 witness: a second success replaced the first one's different result,
\* with a failed exchange in the run
C15_Witness ==
    /\ lastEvent.op = "predictOk"
    /\ toastSuccess = 2
    /\ toastError = 1
    /\ lastEvent.pre # NULL
    /\ lastEvent.pre # prediction
    /\ prediction # NULL

\* C20: a successful stats fetch sets all four fields from the response's data
\* object, a field that is absent or falsy becoming 0; no field keeps its
\* previous value.
FieldOrZero(field) == IF field = Absent THEN 0 ELSE field[1]

C20_StatsReplacedWholesale ==
    [][ lastEvent'.op = "statsOk" =>
          LET d == lastEvent'.data IN
          /\ stats'.totalPredictions = FieldOrZero(d.total_predictions)
          /\ stats'.fraudCount = FieldOrZero(d.fraud_count)
          /\ stats'.safeCount = FieldOrZero(d.safe_count)
          /\ stats'.fraudPercentage = FieldOrZero(d.fraud_percentage)
          /\ DOMAIN stats' = DOMAIN ZeroStats
      ]_vars

\* C20 witness: the response lacked fraud_count while the slot held a
\* non-zero fraudCount; it is 0 now
C20_Witness ==
    /\ lastEvent.op = "statsOk"
    /\ lastEvent.data.fraud_count = Absent
    /\ lastEvent.before.fraudCount # 0
    /\ stats.fraudCount = 0
    /\ stats.totalPredictions = 5

\* C16: the headline is 'Transaction Safe' exactly when fraud is false and
\* 'Fraud Detected!' exactly when it is true; the bar's width in percent is the
\* confidence times 100 (97 for 0.97), whatever the verdict.
C16_HeadlineAndBar ==
    cardPrediction # NULL =>
        /\ (cardHeadline = "Transaction Safe" <=> ~cardPrediction.fraud)
        /\ (cardHeadline = "Fraud Detected!" <=> cardPrediction.fraud)
        /\ cardBarWidth[1] * 10 = cardPrediction.confidence * cardBarWidth[2]

\* C16 witness: a safe verdict at confidence 0.975 is drawn with a 97.5% bar
C16_Witness ==
    /\ cardPrediction # NULL
    /\ ~cardPrediction.fraud
    /\ cardPrediction.confidence = 975
    /\ cardHeadline = "Transaction Safe"
    /\ RatEq(cardBarWidth, Rat(975, 10))

\* the first n characters of a string, all of it when it is shorter
FirstChars(id, n) == [i \in 1..(IF Len(id) < n THEN Len(id) ELSE n) |-> id[i]]

\* C17 as stated: an id of at most 16 characters is shown as it is, a longer
\* one as its first 16 characters and an ellipsis; a copy is the full id.
C17_ShortIdShownWhole ==
    /\ (cardPrediction # NULL /\ cardIdText # Absent =>
          LET id == cardPrediction.transaction_id[1] IN
          cardIdText[1] = IF Len(id) <= 16 THEN id
                          ELSE FirstChars(id, 16) \o <<".", ".", ".">>)
    /\ (lastEvent.op = "copy" => clipboard = cardPrediction.transaction_id)

\* C17 amended: a non-empty id is shown as its first 16 characters (all of it
\* when it has at most 16) always followed by an ellipsis, an absent or empty
\* id is not shown; a copy is the full id.
C17_IdShownWithEllipsis ==
    /\ (cardPrediction # NULL =>
          LET tid == cardPrediction.transaction_id IN
          IF tid = Absent \/ tid = Present(<<>>)
          THEN cardIdText = Absent
          ELSE cardIdText = Present(FirstChars(tid[1], 16) \o <<".", ".", ".">>))
    /\ (lastEvent.op = "copy" =>
          /\ clipboard = cardPrediction.transaction_id
          /\ copied)

\* C17 witness: a six-character id is shown with an ellipsis, and was copied whole
C17_Witness ==
    /\ lastEvent.op = "copy"
    /\ cardPrediction.transaction_id = Present(<<"0", "1", "2", "3", "4", "5">>)
    /\ cardIdText = Present(<<"0", "1", "2", "3", "4", "5", ".", ".", ".">>)
    /\ clipboard = Present(<<"0", "1", "2", "3", "4", "5">>)

\* the value of a character as a decimal digit
DigitValue(c) == (CHOOSE d \in 1..10 : DigitChars[d] = c) - 1

\* the number a JSON number text denotes
RECURSIVE TextToNat(_)
TextToNat(t) ==
    IF Len(t) = 0 THEN 0
    ELSE TextToNat(SubSeq(t, 1, Len(t) - 1)) * 10 + DigitValue(t[Len(t)])

TextToNumber(t) ==
    IF t[1] = "-" THEN 0 - TextToNat(Tail(t)) ELSE TextToNat(t)

\* C18: a form submit sends a body with exactly the draft's 30 keys, each once
\* and each with the draft's value, and leaves the draft and the completion
\* percentage as they were.
C18_SubmitSendsDraftUnchanged ==
    [][ (lastEvent'.op = "submit" /\ lastEvent'.src = "form") =>
          LET body == predictReqs'[Len(predictReqs')].body IN
          /\ Len(body) = 30
          /\ {body[i][1] : i \in 1..Len(body)} = DOMAIN formData
          /\ \A i \in 1..Len(body) : TextToNumber(body[i][2]) = formData[body[i][1]]
          /\ formData' = formData
          /\ fillProgress' = fillProgress
      ]_vars

\* C18 witness: an edited draft (a negative value typed into one field, the
\* other v fields still 0) was submitted and is on its way
C18_Witness ==
    /\ lastEvent.op = "submit"
    /\ Len(predictReqs) = 1
    /\ \E f \in VFields : formData[f] = 0 - 2
    /\ \E f \in VFields : formData[f] = 0
    /\ formData["amount"] = 100
    /\ \E i \in 1..30 : predictReqs[1].body[i] = <<"amount", <<"1", "0", "0">>>>
    /\ \E i \in 1..30 : predictReqs[1].body[i][2] = <<"-", "2">>

\* C19: once a form submit has been handed over, the form no longer holds the
\* submitted values.
C19_DraftDiscardedAfterSubmit ==
    [][ (lastEvent'.op = "submit" /\ lastEvent'.src = "form") =>
          formData' = defaultValues ]_vars

\* a step that starts or completes (a stage of) a history fetch
HistFetchStep ==
    \/ histStarted' # histStarted
    \/ histAwaitFetch' # histAwaitFetch
    \/ histAwaitJson' # histAwaitJson

\* a step that starts or completes (a stage of) a prediction or stats exchange
AppExchangeStep ==
    \/ predictReqs' # predictReqs
    \/ statsAwaitFetch' # statsAwaitFetch
    \/ statsAwaitJson' # statsAwaitJson

\* C14: a step of a history fetch leaves prediction, isLoading and stats as
\* they were; a step of a prediction or stats exchange leaves transactions,
\* loading, filter, searchQuery and currentPage as they were.
C14_DisjointState ==
    [][ /\ (HistFetchStep => UNCHANGED <<prediction, isLoading, stats>>)
        /\ (AppExchangeStep =>
              UNCHANGED <<transactions, loading, filter, searchQuery, currentPage>>)
      ]_vars

\* C14 witness: a history fetch has just delivered records while a prediction
\* request and a second history fetch are in flight
C14_Witness ==
    /\ lastEvent.op = "histOk"
    /\ Len(transactions) > 0
    /\ Len(predictReqs) = 1
    /\ isLoading
    /\ HistInFlight >= 1
    /\ loading = FALSE

\* C21: while the history view is mounted, loading is true in every state in
\* which a history fetch is in flight and false in every state in which none is.
C21_LoadingFollowsFetch ==
    histPhase = "mounted" => (loading <=> HistInFlight > 0)

\* C22: changing the status filter or the search string leaves currentPage as
\* it was; currentPage changes only in a Previous or Next step.
C22_FilterKeepsPage ==
    [][ /\ (lastEvent'.op \in {"setFilter", "setSearchQuery"} =>
              currentPage' = currentPage)
        /\ (filter' # filter \/ searchQuery' # searchQuery =>
              currentPage' = currentPage)
        /\ (currentPage' # currentPage =>
              lastEvent'.op \in {"previousPage", "nextPage"})
      ]_vars

\* C22 witness: the status filter was changed on page 2, which is still the
\* current page
C22_Witness ==
    /\ lastEvent.op = "setFilter"
    /\ filter = "safe"
    /\ currentPage = 2
    /\ totalPages >= 2

\* C26: currentPage lies in 1..max(1, totalPages), and whenever the filtered
\* list is not empty the displayed page is not empty.
C26_PageInRange ==
    /\ currentPage >= 1
    /\ currentPage <= Max(1, totalPages)
    /\ (Len(filteredTransactions) > 0 => Len(paginatedTransactions) > 0)

\* what an input's text is stored as: its number, 0 when it is not a number or is 0
StoredFor(text) == CASE text = "7" -> 7 [] text = "-2" -> 0 - 2 [] OTHER -> 0

\* C23: a field edit stores the typed number (0 when the text is not a number
\* or is 0) at the edited field and leaves the other 29 fields as they were;
\* no edit is rejected, whatever the field and the text.
C23_EditReplacesOneField ==
    /\ [][ lastEvent'.op = "handleChange" =>
             /\ DOMAIN formData' = FieldNames
             /\ \E field \in FieldNames :
                  /\ \A g \in FieldNames \ {field} : formData'[g] = formData[g]
                  /\ \E text \in InputTexts : formData'[field] = StoredFor(text)
         ]_vars
    /\ [](edits < MaxEdits =>
            \A field \in {"time", "v28", "amount"}, text \in InputTexts :
                ENABLED handleChange(field, OnChangeValue(text)))

\* C23 witness: the amount was emptied (stored as 0) and a v field holds the
\* negative number typed in the other edit
C23_Witness ==
    /\ lastEvent.op = "handleChange"
    /\ edits = 2
    /\ formData["amount"] = 0
    /\ \E f \in VFields : formData[f] = 0 - 2
    /\ Cardinality({f \in FieldNames : formData[f] # defaultValues[f]}) = 2

\* C25: in every state of the form the stored fillProgress equals
\* 100 x (number of draft fields that are not 0) / 30 for the draft held, and a
\* reset leaves the draft at defaultValues.
C25_ProgressMatchesDraft ==
    /\ fillProgress[1] * 30 =
         100 * Cardinality({f \in FieldNames : formData[f] # 0}) * fillProgress[2]
    /\ (lastEvent.op = "handleReset" => formData = defaultValues)

\* C24: a teardown cancels no request: the requests in flight stay in flight,
\* their responses can still arrive, and a response that arrives writes what it
\* writes while mounted (transactions and loading; prediction and isLoading; stats).
C24_NoCancellation ==
    [][ /\ (lastEvent'.op = "histUnmount" =>
              histAwaitFetch' = histAwaitFetch /\ histAwaitJson' = histAwaitJson)
        /\ (lastEvent'.op = "appUnmount" =>
              /\ predictReqs' = predictReqs
              /\ statsAwaitFetch' = statsAwaitFetch
              /\ statsAwaitJson' = statsAwaitJson)
        /\ (histPhase = "unmounted" /\ histAwaitFetch > 0 => ENABLED HistResponded)
        /\ (histPhase = "unmounted" /\ histAwaitJson > 0 =>
              ENABLED HistParsedFrom(ShortHistoryBodies))
        /\ (appTornDown /\ predictReqs # <<>> =>
              ENABLED PredictResponded \/ ENABLED PredictParsed)
        /\ (appTornDown /\ statsAwaitFetch > 0 => ENABLED StatsResponded)
        /\ (appTornDown /\ statsAwaitJson > 0 => ENABLED StatsParsed)
        /\ (histPhase = "unmounted" /\ lastEvent'.op = "histOk" =>
              /\ ~loading'
              /\ \E body \in ShortHistoryBodies \ {JsonNull} :
                   transactions' = IF body.data = Absent THEN <<>> ELSE body.data[1])
        /\ (histPhase = "unmounted" /\ lastEvent'.op = "histFail" =>
              /\ ~loading'
              /\ \E seed \in 0..MaxSeed :
                   transactions' = generateMockTransactions(seed))
        /\ (appTornDown /\ lastEvent'.op = "predictOk" =>
              prediction' = lastEvent'.result /\ ~isLoading')
        /\ (appTornDown /\ lastEvent'.op = "predictFail" => ~isLoading')
        /\ (appTornDown /\ lastEvent'.op = "statsOk" =>
              stats'.totalPredictions = FieldOrZero(lastEvent'.data.total_predictions))
      ]_vars

\* C24 witness: the history view was torn down with its mount fetch in flight,
\* the response arrived afterwards and stored its two records; the application
\* is torn down too, with a prediction request still in flight
C24_Witness ==
    /\ histPhase = "unmounted"
    /\ lastEvent.op = "histOk"
    /\ histStarted = 1
    /\ Len(transactions) = 2
    /\ ~loading
    /\ appTornDown
    /\ Len(predictReqs) = 1

\* the number of views of the card that are drawn
ViewsShown ==
    (IF ShowsEmpty THEN 1 ELSE 0) + (IF ShowsLoading THEN 1 ELSE 0)
      + (IF ShowsResult THEN 1 ELSE 0)

\* C27: exactly one of the three views is drawn: the empty view iff prediction
\* is null and isLoading is false, the loading view iff isLoading, the result
\* view iff prediction is not null and isLoading is false; a submit keeps the
\* stored prediction while the loading view hides it, and a failed request
\* brings the same prediction back into view.
C27_ExactlyOneView ==
    /\ [](/\ ViewsShown = 1
          /\ (ShowsEmpty <=> prediction = NULL /\ ~isLoading)
          /\ (ShowsLoading <=> isLoading)
          /\ (ShowsResult <=> prediction # NULL /\ ~isLoading))
    /\ [][ /\ (lastEvent'.op = "submit" =>
                 prediction' = prediction /\ ShowsLoading' /\ ~ShowsResult')
           /\ (lastEvent'.op = "predictFail" /\ lastEvent'.pre # NULL =>
                 prediction' = lastEvent'.pre /\ ShowsResult' /\ ~ShowsLoading')
         ]_vars

\* C27 witness: a request made while a result was stored has failed, and the
\* earlier result is in view again
C27_Witness ==
    /\ lastEvent.op = "predictFail"
    /\ lastEvent.pre # NULL
    /\ prediction = lastEvent.pre
    /\ ShowsResult
    /\ ViewsShown = 1
    /\ submitted = 2

\* the slices of pages 1..p, one after the other
RECURSIVE ConcatPages(_)
ConcatPages(p) == IF p = 0 THEN <<>> ELSE ConcatPages(p - 1) \o PageSlice(p)

\* the position of a record in the fetched list (records differ in their _id)
PositionOf(rec) == CHOOSE k \in 1..Len(transactions) : transactions[k] = rec

\* C28: the slices of pages 1..totalPages, concatenated in order, are exactly
\* the filtered list; every filtered record is on exactly one page, and the
\* filtered records are in the order they have in the fetched list.
C28_PagesPartition ==
    LET F == filteredTransactions IN
    /\ ConcatPages(totalPages) = F
    /\ \A i \in 1..Len(F) :
         Cardinality({p \in 1..totalPages :
                        \E k \in 1..Len(PageSlice(p)) : PageSlice(p)[k] = F[i]}) = 1
    /\ \A i \in 1..Len(F), j \in 1..Len(F) :
         i < j => PositionOf(F[i]) < PositionOf(F[j])

\* C28 witness: 21 fetched records of which the 14 safe ones are shown, on two pages
C28_Witness ==
    /\ filter = "safe"
    /\ Len(transactions) = 21
    /\ Len(filteredTransactions) = 14
    /\ totalPages = 2
    /\ Len(PageSlice(1)) = 10
    /\ Len(PageSlice(2)) = 4

\* the list holds mock records
IsMock(list) == Len(list) > 0 /\ list[1]._id[1] = "mock"

\* the list a parsed body is stored as: its data array, empty without one
ListOf(body) == IF body.data = Absent THEN <<>> ELSE body.data[1]

\* C29 as stated: a success status stores the response's data array, or the
\* empty list when the body has no data field; mock records are stored only
\* when the status is non-2xx or the fetch or the body parsing throws.
C29_MocksOnlyOnFailure ==
    [][ /\ (lastEvent'.op = "histOk" =>
              /\ ~IsMock(transactions')
              /\ \E body \in HistoryBodies \ {JsonNull} : transactions' = ListOf(body))
        /\ (lastEvent'.op = "histFail" =>
              lastEvent'.why \in {"transport", "status", "parse"})
      ]_vars

\* C29 amended: as stated, except that mock records are stored also when the
\* status is 2xx and the body parses to null (reading its data field throws).
C29_MocksOnFailureOrNullBody ==
    [][ /\ (lastEvent'.op = "histOk" =>
              /\ ~IsMock(transactions')
              /\ \E body \in HistoryBodies \ {JsonNull} : transactions' = ListOf(body))
        /\ (lastEvent'.op = "histFail" =>
              /\ lastEvent'.why \in {"transport", "status", "parse", "null"}
              /\ IsMock(transactions'))
        /\ (IsMock(transactions') /\ transactions' # transactions =>
              lastEvent'.op = "histFail")
      ]_vars

\* C29 witness: a 2xx response whose body parsed to null left mock records
C29_Witness ==
    /\ lastEvent.op = "histFail"
    /\ lastEvent.why = "null"
    /\ IsMock(transactions)
    /\ ~loading

\* C30: once a stats fetch has succeeded the four cards show totalPredictions,
\* fraudCount, safeCount and fraudPercentage of the stats slot, and the pie
\* chart's Fraud and Safe values are those of the Fraud Detected and Safe
\* Transactions cards; no placeholder figure is shown then.
C30_DashboardShowsStats ==
    lastEvent.op = "statsOk" =>
        /\ statCards.TotalPredictions = stats.totalPredictions
        /\ statCards.FraudDetected = stats.fraudCount
        /\ statCards.SafeTransactions = stats.safeCount
        /\ statCards.FraudRateTenths = stats.fraudPercentage * 10
        /\ pieData.Fraud = statCards.FraudDetected
        /\ pieData.Safe = statCards.SafeTransactions

====
